---- MODULE Spec2Model ----
(***************************************************************************)
(* Model of smbio.experiment.Experiment: a parameter sweep that runs a     *)
(* user task once per configuration, serially or on a multiprocessing      *)
(* pool, and hands every task result to the user's result() method.        *)
(*                                                                         *)
(* The parent process has two threads in parallel mode: the main thread    *)
(* (the body of __run_mp) and the pool's result-handler thread, which runs *)
(* the callbacks _cb and _err.  Workers run _wrapper.                      *)
(***************************************************************************)
EXTENDS Integers, Sequences, FiniteSets, TLC

\* ---------------------------------------------------------------- bounds
MaxParams == 2      \* declared parameters per experiment
MaxVals == 2        \* values per declared parameter
MaxValue == 2       \* parameter values are 1..MaxValue
MaxConfigs == 4     \* configurations per run explored by the run model
MaxProc == 2        \* worker processes in the pool
MaxRuns == 2        \* successive run() calls on one instance
MaxOptions == 2     \* options of the menu displayed
MaxSelections == 3  \* selections entered during one display()
MaxRetries == 2     \* largest num_retries given to repeat_input
MaxPrompts == 4     \* prompts of one repeat_input call explored
MaxArgs == 2        \* positional arguments of a decorated generator function
MaxEstimate == 2    \* iteration estimates are 1..MaxEstimate (or a default)
MaxItems == 2       \* items of the iterable wrapped by Progress
MaxPrints == 2      \* lines printed by the code consuming a Progress
MaxNodes == 3       \* nodes of the digraph given to tree.root
MaxIters == 2       \* successive iterations of configs()

Values == 1..MaxValue

\* The value of a task()/result() body that is just `pass`.
None == 0

RECURSIVE SeqsUpTo(_, _)
SeqsUpTo(S, n) ==
    IF n = 0 THEN {<<>>}
    ELSE LET shorter == SeqsUpTo(S, n - 1)
         IN  shorter \cup {Append(s, v) : s \in {t \in shorter : Len(t) = n - 1}, v \in S}

\* The value sequences a parameter can be declared with.
ValueSeqs == SeqsUpTo(Values, MaxVals)

\* The _params dictionaries: an ordered list of value sequences.
ParamDecls == SeqsUpTo(ValueSeqs, MaxParams)

\* range(s), the way the class docstring declares a parameter:
\* self._params['Trial'] = range(100).
RangeSeq(s) == [i \in 1..s |-> i]

\* The _params dictionaries of the experiments that are run: every
\* parameter is declared as a range, with no value or with several (a
\* parameter with one value lengthens the tuples without changing their
\* number; the experiment with one configuration is the one without
\* parameters).
RunParamDecls ==
    SeqsUpTo({RangeSeq(s) : s \in (0..MaxVals) \ {1}}, MaxParams)

\* ------------------------------------------------------- pure functions
\* Extend with the new component put first: [[y] + x ...].
RECURSIVE Extend_prepend(_, _)
Extend_prepend(result, pool) ==
    IF result = <<>> THEN <<>>
    ELSE [j \in 1..Len(pool) |-> <<pool[j]>> \o Head(result)]
         \o Extend_prepend(Tail(result), pool)

\* [x + [y] for x in result for y in pool]
RECURSIVE Extend(_, _)
Extend(result, pool) ==
    IF result = <<>> THEN <<>>
    ELSE [j \in 1..Len(pool) |-> Append(Head(result), pool[j])]
         \o Extend(Tail(result), pool)

\* product yielding nothing when there is no pool at all.
RECURSIVE product_none(_)
product_none(pools) ==
    IF pools = <<>> THEN <<>>
    ELSE Extend(product_none(SubSeq(pools, 1, Len(pools) - 1)), pools[Len(pools)])

\* product leaving out the pools that have no value.
RECURSIVE product_skip_empty(_)
product_skip_empty(pools) ==
    IF pools = <<>> THEN << <<>> >>
    ELSE IF pools[Len(pools)] = <<>>
         THEN product_skip_empty(SubSeq(pools, 1, Len(pools) - 1))
         ELSE Extend(product_skip_empty(SubSeq(pools, 1, Len(pools) - 1)),
                     pools[Len(pools)])

\* itertools.product(*pools): result = [[]]; for pool in pools: extend.
RECURSIVE product(_)
product(pools) ==
    IF pools = <<>> THEN << <<>> >>
    ELSE Extend(product(SubSeq(pools, 1, Len(pools) - 1)), pools[Len(pools)])

\* Experiment.configs
configs(p) == product(p)

RECURSIVE Times(_)
Times(t) == IF t = <<>> THEN 1 ELSE Head(t) * Times(Tail(t))

\* ----------------------------------------------------------------- state
VARIABLES
    params,       \* self._params, as the ordered list of value sequences
    silent,       \* self._silent
    overridden,   \* whether the subclass defines task() and result()
    taskFails,    \* units whose task() raises
    completed,    \* self.__completed
    num_configs,  \* self.__num_configs
    pc,           \* position of the main thread
    mp,           \* the mp argument of the current run
    nproc,        \* the nproc argument of the current run
    cfgs,         \* the configurations the current run iterates over
    idx,          \* loop index of the current for loop
    unit,         \* per submitted unit: where it is in the pool
    outqueue,     \* the pool's result queue (worker -> result handler)
    handler,      \* the pool's result-handler thread
    taskCalls,    \* per unit: number of task() calls in the current run
    aggLog,       \* result() calls of the current run
    aggRaised,    \* units whose result() call raised in the current run
    out,          \* lines printed by the current run
    runs,         \* run() calls started so far
    history,      \* per returned run: mode and bag of aggregated values
    iters,        \* the sequences obtained by successive iterations of configs()
    \* smbio.util.menu.Menu
    options,      \* self.options of the menu displayed, as the kinds of its actions
    reentrant,    \* self.reentrant of the menu displayed
    frames,       \* the display() calls in progress, innermost last
    entered,      \* the selections repeat_input returned to display() so far
    menu_out,     \* what display() printed
    executed,     \* the actions display() executed
    \* smbio.util.menu.repeat_input
    given_retries, \* the num_retries argument of the call
    num_retries,  \* the local num_retries, counted down
    typed,        \* the lines the user typed, one per prompt
    input_pc,     \* position in repeat_input
    rv,           \* the value returned
    \* smbio.util.progress.progress_bar
    decorator,    \* the arguments of progress_bar: index and niters
    isatty,       \* whether stdout is a terminal
    call,         \* the arguments of the call of the decorated function
    bar_result,   \* what the call of the decorated function produced
    \* smbio.util.progress.Progress
    wrapped,      \* the iterable given to Progress
    prog,         \* the fields of the Progress object
    prog_pc,      \* position of the code using the Progress object
    sys_stdout,   \* what sys.stdout is bound to
    buffer,       \* contents of the StringIO put in place of stdout
    stream,       \* what was written to the original stdout
    yielded,      \* the items __next__ returned
    printed,      \* what user code printed since the construction
    \* smbio.tree
    T,            \* the digraph given to roots() and root(): nodes and edges
    root_list,    \* what roots(T) returned
    root_result   \* what root(T) produced

experiment == <<params, silent, overridden, taskFails, aggRaised, completed,
                num_configs, pc, mp, nproc, cfgs, idx, unit, outqueue, handler,
                taskCalls, aggLog, out, runs, history, iters>>

menu == <<options, reentrant, frames, entered, menu_out, executed>>

input == <<given_retries, num_retries, typed, input_pc, rv>>

bar == <<decorator, isatty, call, bar_result>>

progress == <<wrapped, prog, prog_pc, sys_stdout, buffer, stream, yielded, printed>>

tree == <<T, root_list, root_result>>

util == <<menu, input, bar, progress, tree>>

vars == <<experiment, util>>

inst == <<params, silent, overridden, taskFails>>

\* ---------------------------------------------------------------- helpers
Line(kind, c, n, u) == [kind |-> kind, c |-> c, n |-> n, u |-> u]

Range(s) == {s[i] : i \in 1..Len(s)}

\* Experiment.task: the user's task, here the product of the parameter
\* values; the base class body is `pass`.
task(configuration) == IF overridden THEN Times(configuration) ELSE None

\* Whether a call of Experiment.result raises: the user's result() may,
\* the base class body is `pass`.
ResultRaises == IF overridden THEN BOOLEAN ELSE {FALSE}

Units == 1..Len(cfgs)

BagOfValues(log) ==
    [v \in {e.value : e \in Range(log)} |->
        Cardinality({i \in 1..Len(log) : log[i].value = v})]

\* ------------------------------------------------------------------ Init
\* Experiment.__init__: the counters are zero, nothing has run.
Constructed ==
    /\ completed = 0
    /\ num_configs = 0
    /\ pc = "idle"
    /\ mp = FALSE
    /\ nproc = 1
    /\ cfgs = <<>>
    /\ idx = 0
    /\ unit = <<>>
    /\ outqueue = <<>>
    /\ handler = "none"
    /\ taskCalls = <<>>
    /\ aggLog = <<>>
    /\ aggRaised = {}
    /\ out = <<>>
    /\ runs = 0
    /\ history = <<>>
    /\ iters = <<>>

\* Default of the niters parameter of progress_bar.
progress_bar_niters == 100

\* Default of the niters parameter of Progress.__init__.
Progress_niters == 100

\* An Optional value: None as the empty sequence, a value x as <<x>>.
Optional(S) == {<<>>} \cup {<<x>> : x \in S}

\* No display() call was made.
MenuIdle ==
    /\ options = <<>>
    /\ reentrant = FALSE
    /\ frames = <<>>
    /\ entered = <<>>
    /\ menu_out = <<>>
    /\ executed = <<>>

\* No repeat_input() call was made.
InputIdle ==
    /\ given_retries = -1
    /\ num_retries = -1
    /\ typed = <<>>
    /\ input_pc = "idle"
    /\ rv = <<>>

\* No function was decorated with progress_bar.
BarIdle ==
    /\ decorator = [index |-> <<>>, niters |-> progress_bar_niters]
    /\ isatty = FALSE
    /\ call = [args |-> <<>>, kwargs |-> <<>>]
    /\ bar_result = [kind |-> "none"]

\* No Progress object was made: sys.stdout is the original stream.
ProgressIdle ==
    /\ wrapped = [sized |-> TRUE, items |-> <<>>, prints |-> <<>>, niters |-> <<>>]
    /\ prog = [iters |-> 0, estimate |-> 0, percent |-> 0, needswrite |-> FALSE,
               finalized |-> FALSE, pos |-> 0]
    /\ prog_pc = "none"
    /\ sys_stdout = "original"
    /\ buffer = <<>>
    /\ stream = <<>>
    /\ yielded = <<>>
    /\ printed = <<>>

\* No graph was given to smbio.tree.
TreeIdle ==
    /\ T = [nodes |-> {}, edges |-> {}]
    /\ root_list = <<>>
    /\ root_result = [kind |-> "none"]

UtilIdle == MenuIdle /\ InputIdle /\ BarIdle /\ ProgressIdle /\ TreeIdle

\* An experiment constructed and never run, while the utilities are used.
ExperimentIdle ==
    /\ params = <<>>
    /\ silent = FALSE
    /\ overridden = FALSE
    /\ taskFails = {}
    /\ Constructed

\* Experiment.__init__ followed by the subclass constructor declaring its
\* parameters; taskFails describes the user's task().
Init ==
    /\ params \in {p \in RunParamDecls : Len(configs(p)) <= MaxConfigs}
    /\ silent \in BOOLEAN
    /\ overridden \in BOOLEAN
    /\ taskFails \in IF overridden THEN SUBSET (1..Len(configs(params))) ELSE {{}}
    /\ Constructed
    /\ UtilIdle

\* What every run() starts from: the observations of the run are empty.
BeginRun(c) ==
    /\ cfgs' = c
    /\ idx' = 1
    /\ unit' = [i \in 1..Len(c) |-> "none"]
    /\ outqueue' = <<>>
    /\ taskCalls' = [i \in 1..Len(c) |-> 0]
    /\ aggLog' = <<>>
    /\ aggRaised' = {}
    /\ out' = <<>>
    /\ runs' = runs + 1

\* ------------------------------------------------- parallel mode, main
\* __run_mp up to the head of the for loop: reset __completed, create the
\* pool, start iterating configs().
run_mp(processes) ==
    /\ pc = "idle"
    /\ runs < MaxRuns
    /\ completed' = 0
    /\ BeginRun(configs(params))
    /\ mp' = TRUE
    /\ nproc' = processes
    /\ handler' = "idle"
    /\ pc' = "mp_for"
    /\ UNCHANGED <<util, inst, num_configs, history, iters>>

\* The dispatch loop submitting the configurations last to first.
run_mp_apply_async_reversed ==
    /\ pc = "mp_for"
    /\ idx <= Len(cfgs)
    /\ unit' = [unit EXCEPT ![Len(cfgs) + 1 - idx] = "queued"]
    /\ pc' = "mp_count"
    /\ UNCHANGED <<util, inst, aggRaised, completed, num_configs, mp, nproc, cfgs, idx, outqueue,
                   handler, taskCalls, aggLog, out, runs, history, iters>>

\* pool.apply_async(self._wrapper, (configuration,), callback, error_callback)
run_mp_apply_async ==
    /\ pc = "mp_for"
    /\ idx <= Len(cfgs)
    /\ unit' = [unit EXCEPT ![idx] = "queued"]
    /\ pc' = "mp_count"
    /\ UNCHANGED <<util, inst, aggRaised, completed, num_configs, mp, nproc, cfgs, idx, outqueue,
                   handler, taskCalls, aggLog, out, runs, history, iters>>

\* self.__num_configs += 1
run_mp_count ==
    /\ pc = "mp_count"
    /\ num_configs' = num_configs + 1
    /\ idx' = idx + 1
    /\ pc' = "mp_for"
    /\ UNCHANGED <<util, inst, aggRaised, completed, mp, nproc, cfgs, unit, outqueue, handler,
                   taskCalls, aggLog, out, runs, history, iters>>

\* The 'queued' line printed only when something was queued.
run_mp_queued_nonzero ==
    /\ pc = "mp_for"
    /\ idx > Len(cfgs)
    /\ out' = IF silent \/ num_configs = 0 THEN out
              ELSE Append(out, Line("queued", 0, num_configs, 0))
    /\ idx' = 1
    /\ pc' = "mp_wait"
    /\ UNCHANGED <<util, inst, aggRaised, completed, num_configs, mp, nproc, cfgs, unit, outqueue,
                   handler, taskCalls, aggLog, runs, history, iters>>

\* print('Experiment: queued %d tasks.' % self.__num_configs)
run_mp_queued ==
    /\ pc = "mp_for"
    /\ idx > Len(cfgs)
    /\ out' = IF silent THEN out ELSE Append(out, Line("queued", 0, num_configs, 0))
    /\ idx' = 1
    /\ pc' = "mp_wait"
    /\ UNCHANGED <<util, inst, aggRaised, completed, num_configs, mp, nproc, cfgs, unit, outqueue,
                   handler, taskCalls, aggLog, runs, history, iters>>

\* The wait loop moving on without blocking on the unit's event.
run_mp_wait_nonblocking ==
    /\ pc = "mp_wait"
    /\ idx <= Len(cfgs)
    /\ idx' = idx + 1
    /\ UNCHANGED <<util, inst, aggRaised, completed, num_configs, pc, mp, nproc, cfgs, unit,
                   outqueue, handler, taskCalls, aggLog, out, runs, history,
                   iters>>

\* result.wait(): blocks until the unit's event is set.
run_mp_wait ==
    /\ pc = "mp_wait"
    /\ idx <= Len(cfgs)
    /\ unit[idx] = "set"
    /\ idx' = idx + 1
    /\ UNCHANGED <<util, inst, aggRaised, completed, num_configs, pc, mp, nproc, cfgs, unit,
                   outqueue, handler, taskCalls, aggLog, out, runs, history,
                   iters>>

\* print('Experiment: completed all tasks.'), leave the with block, return.
run_mp_return ==
    /\ pc = "mp_wait"
    /\ idx > Len(cfgs)
    /\ out' = IF silent THEN out ELSE Append(out, Line("all", 0, 0, 0))
    /\ handler' = "none"
    /\ pc' = "idle"
    /\ history' = Append(history, [mp |-> TRUE, agg |-> BagOfValues(aggLog)])
    /\ UNCHANGED <<util, inst, aggRaised, completed, num_configs, mp, nproc, cfgs, idx, unit,
                   outqueue, taskCalls, aggLog, runs, iters>>

\* ---------------------------------------------- parallel mode, workers
InPool == pc \in {"mp_for", "mp_count", "mp_wait"}

Running == {u \in Units : unit[u] = "running"}

\* A free worker takes the oldest queued unit and enters _wrapper.
wrapper_call(u) ==
    /\ InPool
    /\ unit[u] = "queued"
    /\ \A j \in 1..(u - 1) : unit[j] # "queued"
    /\ Cardinality(Running) < nproc
    /\ unit' = [unit EXCEPT ![u] = "running"]
    /\ taskCalls' = [taskCalls EXCEPT ![u] = @ + 1]
    /\ UNCHANGED <<util, inst, aggRaised, completed, num_configs, pc, mp, nproc, cfgs, idx,
                   outqueue, handler, aggLog, out, runs, history, iters>>

\* _wrapper re-queueing a unit whose task raised, once.
wrapper_done_retry(u) ==
    /\ pc \in {"mp_for", "mp_count", "mp_wait"}
    /\ unit[u] = "running"
    /\ IF u \in taskFails /\ taskCalls[u] < 2
       THEN /\ unit' = [unit EXCEPT ![u] = "queued"]
            /\ outqueue' = outqueue
       ELSE /\ unit' = [unit EXCEPT ![u] = "result"]
            /\ outqueue' = Append(outqueue, u)
    /\ UNCHANGED <<util, inst, aggRaised, completed, num_configs, pc, mp, nproc, cfgs, idx,
                   handler, taskCalls, aggLog, out, runs, history, iters>>

\* _wrapper calling self.result() itself, inside the worker.
wrapper_done_aggregates(u) ==
    /\ pc \in {"mp_for", "mp_count", "mp_wait"}
    /\ unit[u] = "running"
    /\ unit' = [unit EXCEPT ![u] = "result"]
    /\ outqueue' = Append(outqueue, u)
    /\ aggLog' = IF u \in taskFails THEN aggLog
                 ELSE Append(aggLog, [unit |-> u, value |-> task(cfgs[u]),
                                      where |-> "worker"])
    /\ UNCHANGED <<util, inst, aggRaised, completed, num_configs, pc, mp, nproc, cfgs, idx,
                   handler, taskCalls, out, runs, history, iters>>

\* _wrapper returns task's value or raises; the worker puts the outcome
\* on the result queue.
wrapper_done(u) ==
    /\ InPool
    /\ unit[u] = "running"
    /\ unit' = [unit EXCEPT ![u] = "result"]
    /\ outqueue' = Append(outqueue, u)
    /\ UNCHANGED <<util, inst, aggRaised, completed, num_configs, pc, mp, nproc, cfgs, idx,
                   handler, taskCalls, aggLog, out, runs, history, iters>>

\* --------------------------------------- parallel mode, result handler
\* _cb without the increment of __completed.
cb_no_count ==
    /\ pc \in {"mp_for", "mp_count", "mp_wait"}
    /\ handler = "idle"
    /\ outqueue # <<>>
    /\ Head(outqueue) \notin taskFails
    /\ LET u == Head(outqueue) IN
         /\ out' = IF silent THEN out
                   ELSE Append(out, Line("progress", completed, num_configs, u))
         /\ aggLog' = Append(aggLog, [unit |-> u, value |-> task(cfgs[u]),
                                      where |-> "handler"])
         /\ unit' = [unit EXCEPT ![u] = "callback"]
    /\ outqueue' = Tail(outqueue)
    /\ handler' = "busy"
    /\ UNCHANGED <<util, inst, aggRaised, completed, num_configs, pc, mp, nproc, cfgs, idx,
                   taskCalls, runs, history, iters>>

\* _cb printing the progress line before it increments __completed.
cb_prints_before_increment ==
    /\ InPool
    /\ handler = "idle"
    /\ outqueue # <<>>
    /\ Head(outqueue) \notin taskFails
    /\ LET u == Head(outqueue) IN
         /\ completed' = completed + 1
         /\ out' = IF silent THEN out
                   ELSE Append(out, Line("progress", completed, num_configs, u))
         /\ aggLog' = Append(aggLog, [unit |-> u, value |-> task(cfgs[u]),
                                      where |-> "handler"])
         /\ unit' = [unit EXCEPT ![u] = "callback"]
    /\ outqueue' = Tail(outqueue)
    /\ handler' = "busy"
    /\ UNCHANGED <<util, inst, aggRaised, num_configs, pc, mp, nproc, cfgs, idx, taskCalls, runs,
                   history, iters>>

\* The result-handler thread takes the next outcome; it was a success:
\* _cb increments __completed, prints the progress line, calls result().
cb ==
    /\ InPool
    /\ handler = "idle"
    /\ outqueue # <<>>
    /\ Head(outqueue) \notin taskFails
    /\ LET u == Head(outqueue) IN
         /\ completed' = completed + 1
         /\ out' = IF silent THEN out
                   ELSE Append(out, Line("progress", completed + 1, num_configs, u))
         /\ aggLog' = Append(aggLog, [unit |-> u, value |-> task(cfgs[u]),
                                      where |-> "handler"])
         /\ unit' = [unit EXCEPT ![u] = "callback"]
    /\ outqueue' = Tail(outqueue)
    /\ handler' = "busy"
    /\ UNCHANGED <<util, inst, aggRaised, num_configs, pc, mp, nproc, cfgs, idx, taskCalls, runs,
                   history, iters>>

\* result() returns to _cb, which returns; the unit's event is set.  If
\* result() raised, the exception ends the result-handler thread and the
\* event is never set.
cb_return(u) ==
    /\ InPool
    /\ unit[u] = "callback"
    /\ \E raises \in ResultRaises :
          IF raises
          THEN /\ unit' = [unit EXCEPT ![u] = "lost"]
               /\ handler' = "dead"
               /\ aggRaised' = aggRaised \cup {u}
          ELSE /\ unit' = [unit EXCEPT ![u] = "set"]
               /\ handler' = "idle"
               /\ aggRaised' = aggRaised
    /\ UNCHANGED <<util, inst, completed, num_configs, pc, mp, nproc, cfgs, idx,
                   outqueue, taskCalls, aggLog, out, runs, history, iters>>

\* _err counting the failed unit as completed.
err_counts ==
    /\ pc \in {"mp_for", "mp_count", "mp_wait"}
    /\ handler = "idle"
    /\ outqueue # <<>>
    /\ Head(outqueue) \in taskFails
    /\ completed' = completed + 1
    /\ unit' = [unit EXCEPT ![Head(outqueue)] = "errback"]
    /\ outqueue' = Tail(outqueue)
    /\ handler' = "busy"
    /\ UNCHANGED <<util, inst, aggRaised, num_configs, pc, mp, nproc, cfgs, idx,
                   taskCalls, aggLog, out, runs, history, iters>>

\* The result-handler thread takes the next outcome; it was a failure:
\* _err is entered.
err ==
    /\ InPool
    /\ handler = "idle"
    /\ outqueue # <<>>
    /\ Head(outqueue) \in taskFails
    /\ unit' = [unit EXCEPT ![Head(outqueue)] = "errback"]
    /\ outqueue' = Tail(outqueue)
    /\ handler' = "busy"
    /\ UNCHANGED <<util, inst, aggRaised, completed, num_configs, pc, mp, nproc, cfgs, idx,
                   taskCalls, aggLog, out, runs, history, iters>>

\* _err dropping the exception without printing it.
err_return_quiet(u) ==
    /\ pc \in {"mp_for", "mp_count", "mp_wait"}
    /\ unit[u] = "errback"
    /\ unit' = [unit EXCEPT ![u] = "set"]
    /\ handler' = "idle"
    /\ UNCHANGED <<util, inst, aggRaised, completed, num_configs, pc, mp, nproc, cfgs, idx,
                   outqueue, taskCalls, aggLog, out, runs, history, iters>>

\* The failure path returning without the unit's event being set.
err_return_no_event(u) ==
    /\ pc \in {"mp_for", "mp_count", "mp_wait"}
    /\ unit[u] = "errback"
    /\ out' = Append(out, Line("error", 0, 0, u))
    /\ unit' = [unit EXCEPT ![u] = "lost"]
    /\ handler' = "idle"
    /\ UNCHANGED <<util, inst, aggRaised, completed, num_configs, pc, mp, nproc, cfgs, idx,
                   outqueue, taskCalls, aggLog, runs, history, iters>>

\* print(exception) in _err; _err returns; the unit's event is set.
err_return(u) ==
    /\ InPool
    /\ unit[u] = "errback"
    /\ out' = Append(out, Line("error", 0, 0, u))
    /\ unit' = [unit EXCEPT ![u] = "set"]
    /\ handler' = "idle"
    /\ UNCHANGED <<util, inst, aggRaised, completed, num_configs, pc, mp, nproc, cfgs, idx,
                   outqueue, taskCalls, aggLog, runs, history, iters>>

\* ------------------------------------------------------ sequential mode
\* __run_serial up to the head of the for loop.
run_serial ==
    /\ pc = "idle"
    /\ runs < MaxRuns
    /\ completed' = 0
    /\ BeginRun(configs(params))
    /\ mp' = FALSE
    /\ pc' = "serial_for"
    /\ UNCHANGED <<util, inst, num_configs, nproc, handler, history, iters>>

\* The for loop of __run_serial calling result(None) when task raised.
run_serial_iter_aggregates_failure ==
    /\ pc = "serial_for"
    /\ idx <= Len(cfgs)
    /\ taskCalls' = [taskCalls EXCEPT ![idx] = @ + 1]
    /\ \E raises \in IF idx \in taskFails THEN {FALSE} ELSE ResultRaises :
       LET taskOk == idx \notin taskFails
           aggOk == ~raises
           done == IF taskOk /\ aggOk THEN completed + 1 ELSE completed
           trace == IF taskOk /\ aggOk THEN <<>> ELSE <<Line("error", 0, 0, idx)>>
           line == IF silent THEN <<>> ELSE <<Line("serial", done, 0, idx)>>
       IN  /\ aggLog' = Append(aggLog, [unit |-> idx,
                                        value |-> IF taskOk THEN task(cfgs[idx])
                                                  ELSE None,
                                        where |-> "main"])
           /\ aggRaised' = IF raises THEN aggRaised \cup {idx} ELSE aggRaised
           /\ completed' = done
           /\ out' = out \o trace \o line
    /\ idx' = idx + 1
    /\ UNCHANGED <<util, inst, num_configs, pc, mp, nproc, cfgs, unit, outqueue,
                   handler, runs, history, iters>>

\* The for loop of __run_serial printing its progress line inside the try
\* block, so only for a configuration that succeeded.
run_serial_iter_quiet_failure ==
    /\ pc = "serial_for"
    /\ idx <= Len(cfgs)
    /\ taskCalls' = [taskCalls EXCEPT ![idx] = @ + 1]
    /\ \E raises \in IF idx \in taskFails THEN {FALSE} ELSE ResultRaises :
       LET taskOk == idx \notin taskFails
           aggOk == ~raises
           done == IF taskOk /\ aggOk THEN completed + 1 ELSE completed
           trace == IF taskOk /\ aggOk THEN <<>> ELSE <<Line("error", 0, 0, idx)>>
           line == IF silent \/ ~(taskOk /\ aggOk) THEN <<>>
                   ELSE <<Line("serial", done, 0, idx)>>
       IN  /\ aggLog' = IF taskOk
                        THEN Append(aggLog, [unit |-> idx, value |-> task(cfgs[idx]),
                                             where |-> "main"])
                        ELSE aggLog
           /\ aggRaised' = IF raises THEN aggRaised \cup {idx} ELSE aggRaised
           /\ completed' = done
           /\ out' = out \o trace \o line
    /\ idx' = idx + 1
    /\ UNCHANGED <<util, inst, num_configs, pc, mp, nproc, cfgs, unit, outqueue,
                   handler, runs, history, iters>>

\* The for loop of __run_serial incrementing __completed before it calls
\* result(), so also for a configuration whose result() call raises.
run_serial_iter_counts_first ==
    /\ pc = "serial_for"
    /\ idx <= Len(cfgs)
    /\ taskCalls' = [taskCalls EXCEPT ![idx] = @ + 1]
    /\ \E raises \in IF idx \in taskFails THEN {FALSE} ELSE ResultRaises :
       LET taskOk == idx \notin taskFails
           aggOk == ~raises
           done == IF taskOk THEN completed + 1 ELSE completed
           trace == IF taskOk /\ aggOk THEN <<>> ELSE <<Line("error", 0, 0, idx)>>
           line == IF silent THEN <<>> ELSE <<Line("serial", done, 0, idx)>>
       IN  /\ aggLog' = IF taskOk
                        THEN Append(aggLog, [unit |-> idx, value |-> task(cfgs[idx]),
                                             where |-> "main"])
                        ELSE aggLog
           /\ aggRaised' = IF raises THEN aggRaised \cup {idx} ELSE aggRaised
           /\ completed' = done
           /\ out' = out \o trace \o line
    /\ idx' = idx + 1
    /\ UNCHANGED <<util, inst, num_configs, pc, mp, nproc, cfgs, unit, outqueue,
                   handler, runs, history, iters>>

\* One iteration of the for loop of __run_serial.
run_serial_iter ==
    /\ pc = "serial_for"
    /\ idx <= Len(cfgs)
    /\ taskCalls' = [taskCalls EXCEPT ![idx] = @ + 1]
    /\ \E raises \in IF idx \in taskFails THEN {FALSE} ELSE ResultRaises :
       LET taskOk == idx \notin taskFails
           aggOk == ~raises
           done == IF taskOk /\ aggOk THEN completed + 1 ELSE completed
           trace == IF taskOk /\ aggOk THEN <<>> ELSE <<Line("error", 0, 0, idx)>>
           line == IF silent THEN <<>> ELSE <<Line("serial", done, 0, idx)>>
       IN  /\ aggLog' = IF taskOk
                        THEN Append(aggLog, [unit |-> idx, value |-> task(cfgs[idx]),
                                             where |-> "main"])
                        ELSE aggLog
           /\ aggRaised' = IF raises THEN aggRaised \cup {idx} ELSE aggRaised
           /\ completed' = done
           /\ out' = out \o trace \o line
    /\ idx' = idx + 1
    /\ UNCHANGED <<util, inst, num_configs, pc, mp, nproc, cfgs, unit, outqueue,
                   handler, runs, history, iters>>

\* print('Experiment: completed all tasks.') and return.
run_serial_return ==
    /\ pc = "serial_for"
    /\ idx > Len(cfgs)
    /\ out' = IF silent THEN out ELSE Append(out, Line("all", 0, 0, 0))
    /\ pc' = "idle"
    /\ history' = Append(history, [mp |-> FALSE, agg |-> BagOfValues(aggLog)])
    /\ UNCHANGED <<util, inst, aggRaised, completed, num_configs, mp, nproc, cfgs, idx, unit,
                   outqueue, handler, taskCalls, aggLog, runs, iters>>

\* Experiment.run
run(parallel, processes) ==
    IF parallel THEN run_mp(processes) ELSE run_serial

Next ==
    \/ \E parallel \in BOOLEAN, processes \in 1..MaxProc : run(parallel, processes)
    \/ run_mp_apply_async
    \/ run_mp_count
    \/ run_mp_queued
    \/ run_mp_wait
    \/ run_mp_return
    \/ \E u \in Units : wrapper_call(u)
    \/ \E u \in Units : wrapper_done(u)
    \/ cb
    \/ \E u \in Units : cb_return(u)
    \/ err
    \/ \E u \in Units : err_return(u)
    \/ run_serial_iter
    \/ run_serial_return

Spec == Init /\ [][Next]_vars

\* The experiments whose runs are followed to their end: task and result
\* overridden, silent (what is printed does not decide whether a run ends).
InitFair ==
    /\ params \in {p \in RunParamDecls : Len(configs(p)) <= MaxConfigs}
    /\ silent = TRUE
    /\ overridden = TRUE
    /\ taskFails \in SUBSET (1..Len(configs(params)))
    /\ Constructed
    /\ UtilIdle

\* The steps of a run that has started: the main thread, the workers and
\* the result-handler thread.  Every task() call terminates (wrapper_done).
Step ==
    \/ run_mp_apply_async
    \/ run_mp_count
    \/ run_mp_queued
    \/ run_mp_wait
    \/ run_mp_return
    \/ \E u \in Units : wrapper_call(u)
    \/ \E u \in Units : wrapper_done(u)
    \/ cb
    \/ \E u \in Units : cb_return(u)
    \/ err
    \/ \E u \in Units : err_return(u)
    \/ run_serial_iter
    \/ run_serial_return

\* The operating system keeps scheduling the process: while some thread of
\* a started run can take a step, one of them eventually does.
FairSpec == InitFair /\ [][Next]_vars /\ WF_vars(Step)

\* ------------------------------------------------ smbio.util.menu.Menu
\* type(action) of an option: a Menu, a function, or anything else.
ActionKinds == {"menu", "function", "other"}

\* The menus given to Menu.__init__ / add(): the options in Add order.
MenuOptions == SeqsUpTo(ActionKinds, MaxOptions)

\* The submenu every "menu" option leads to: two functions, not reentrant
\* (sub_menu of examples/menu.py).
SubMenu == [options |-> <<"function", "function">>, reentrant |-> FALSE]

MenuOf(name) ==
    IF name = "main" THEN [options |-> options, reentrant |-> reentrant]
    ELSE SubMenu

\* seq[i] of Python for a list of length n, as a 1-based position; 0 stands
\* for IndexError.  A negative i counts from the end.
PyIndex(n, i) ==
    IF 0 <= i /\ i < n THEN i + 1
    ELSE IF -n <= i /\ i < 0 THEN n + i + 1
    ELSE 0

Top == frames[Len(frames)]

SetTop(f) == [frames EXCEPT ![Len(frames)] = f]

\* What repeat_input('Selection: ', int) can return for a menu of n options
\* (the integers far outside the menu behave like n + 1 and -(n + 1)).
Selections(n) == Optional((-(n + 1))..(n + 1))

InitMenu ==
    /\ options \in MenuOptions
    /\ reentrant \in BOOLEAN
    /\ frames = <<>>
    /\ entered = <<>>
    /\ menu_out = <<>>
    /\ executed = <<>>
    /\ ExperimentIdle
    /\ InputIdle
    /\ BarIdle
    /\ ProgressIdle
    /\ TreeIdle

\* main_menu.display(): running = True
display ==
    /\ frames = <<>>
    /\ menu_out = <<>>
    /\ frames' = <<[menu |-> "main", running |-> TRUE, at |-> "while"]>>
    /\ UNCHANGED <<experiment, tree, input, bar, progress, options, reentrant, entered,
                   menu_out, executed>>

\* The loop head without 'running = self.reentrant'.
display_show_keeps_running ==
    /\ frames # <<>>
    /\ Top.at = "while"
    /\ Top.running
    /\ frames' = SetTop([Top EXCEPT !.at = "input"])
    /\ menu_out' = Append(menu_out, [kind |-> "menu", menu |-> Top.menu])
    /\ UNCHANGED <<experiment, tree, input, bar, progress, options, reentrant, entered,
                   executed>>

\* while running: running = self.reentrant; print title, options, exit text
display_show ==
    /\ frames # <<>>
    /\ Top.at = "while"
    /\ Top.running
    /\ frames' = SetTop([Top EXCEPT !.running = MenuOf(Top.menu).reentrant,
                                    !.at = "input"])
    /\ menu_out' = Append(menu_out, [kind |-> "menu", menu |-> Top.menu])
    /\ UNCHANGED <<experiment, tree, input, bar, progress, options, reentrant, entered,
                   executed>>

\* selection = repeat_input('Selection: ', int) and the rest of the loop body
display_select(selection) ==
    /\ frames # <<>>
    /\ Top.at = "input"
    /\ Len(entered) < MaxSelections
    /\ entered' = Append(entered, [menu |-> Top.menu, selection |-> selection])
    /\ LET m == MenuOf(Top.menu)
           again == [Top EXCEPT !.at = "while"]
       IN  IF selection = <<>>
           THEN /\ frames' = SetTop([again EXCEPT !.running = FALSE])
                /\ UNCHANGED <<menu_out, executed>>
           ELSE LET o == PyIndex(Len(m.options), selection[1] - 1)
                    act == [menu |-> Top.menu, selection |-> selection[1],
                            option |-> o, kind |-> m.options[o]]
                IN  IF o = 0
                    THEN /\ frames' = SetTop([again EXCEPT !.running = TRUE])
                         /\ menu_out' = Append(menu_out, [kind |-> "invalid",
                                                          menu |-> Top.menu])
                         /\ UNCHANGED executed
                    ELSE /\ frames' =
                              IF m.options[o] = "menu"
                              THEN Append(SetTop(again),
                                          [menu |-> "sub", running |-> TRUE,
                                           at |-> "while"])
                              ELSE SetTop(again)
                         /\ executed' = IF m.options[o] = "other" THEN executed
                                        ELSE Append(executed, act)
                         /\ UNCHANGED menu_out
    /\ UNCHANGED <<experiment, tree, input, bar, progress, options, reentrant>>

\* while running: with running false, display() returns
display_return ==
    /\ frames # <<>>
    /\ Top.at = "while"
    /\ ~Top.running
    /\ frames' = SubSeq(frames, 1, Len(frames) - 1)
    /\ UNCHANGED <<experiment, tree, input, bar, progress, options, reentrant, entered,
                   menu_out, executed>>

NextMenu ==
    \/ display
    \/ display_show
    \/ /\ frames # <<>>
       /\ \E selection \in Selections(Len(MenuOf(Top.menu).options)) :
             display_select(selection)
    \/ display_return

SpecMenu == InitMenu /\ [][NextMenu]_vars

\* ---------------------------------------- smbio.util.menu.repeat_input
\* The lines a user types: blank, not a number, and numbers.
TypedLines == {"", "x", "1.5", "0", "1", "-1"}

\* Whether int(line) returns rather than raising ValueError.
Converts(line) == line \in {"0", "1", "-1"}

\* int(line) for a line that converts.
int(line) ==
    CASE line = "0" -> 0
      [] line = "1" -> 1
      [] line = "-1" -> -1

InitInput ==
    /\ InputIdle
    /\ ExperimentIdle
    /\ MenuIdle
    /\ BarIdle
    /\ ProgressIdle
    /\ TreeIdle

\* repeat_input(prompt, int, n)
repeat_input(n) ==
    /\ input_pc = "idle"
    /\ given_retries' = n
    /\ num_retries' = n
    /\ typed' = <<>>
    /\ rv' = <<>>
    /\ input_pc' = "first"
    /\ UNCHANGED <<experiment, tree, menu, bar, progress>>

\* What one typed line leads to, at the first prompt and at a retry alike:
\* a blank line returns None, a number returns it, anything else is bad.
AfterLine(line) ==
    /\ typed' = Append(typed, line)
    /\ IF line = ""
       THEN rv' = <<>> /\ input_pc' = "returned"
       ELSE IF Converts(line)
            THEN rv' = <<int(line)>> /\ input_pc' = "returned"
            ELSE rv' = <<>> /\ input_pc' = "while"

\* rv_str = input(prompt) and the first conversion
input_first(line) ==
    /\ input_pc = "first"
    /\ AfterLine(line)
    /\ UNCHANGED <<experiment, tree, menu, bar, progress, given_retries, num_retries>>

\* The retry loop never counting its retries down.
input_retry_no_countdown(line) ==
    /\ input_pc = "while"
    /\ num_retries # 0
    /\ Len(typed) < MaxPrompts
    /\ AfterLine(line)
    /\ UNCHANGED <<experiment, tree, menu, bar, progress, given_retries, num_retries>>

\* One turn of the loop: num_retries -= 1; rv_str = input('Bad Input. ...')
input_retry(line) ==
    /\ input_pc = "while"
    /\ num_retries # 0
    /\ Len(typed) < MaxPrompts
    /\ num_retries' = num_retries - 1
    /\ AfterLine(line)
    /\ UNCHANGED <<experiment, tree, menu, bar, progress, given_retries>>

\* The loop ends with num_retries = 0 and rv still None: return rv
input_give_up ==
    /\ input_pc = "while"
    /\ num_retries = 0
    /\ input_pc' = "returned"
    /\ UNCHANGED <<experiment, tree, menu, bar, progress, given_retries, num_retries, typed, rv>>

NextInput ==
    \/ \E n \in (-2)..MaxRetries : repeat_input(n)
    \/ \E line \in TypedLines : input_first(line)
    \/ \E line \in TypedLines : input_retry(line)
    \/ input_give_up

SpecInput == InitInput /\ [][NextInput]_vars

\* --------------------------------- smbio.util.progress.progress_bar
Estimates == 1..MaxEstimate

\* @progress_bar(index=..., niters=...) with the default name 'niters':
\* index is None or an argument position, niters the default or a number.
Decorators ==
    [index : Optional(0..MaxArgs), niters : {progress_bar_niters} \cup Estimates]

\* The calls of the decorated function: positional arguments, and the
\* keyword argument called name, if it is given.
Calls == [args : SeqsUpTo(Estimates, MaxArgs), kwargs : Optional(Estimates)]

\* progress(it, niters=n) for a generator: a Progress if the terminal is
\* capable, otherwise the generator itself.
progress_of(n) ==
    [kind |-> IF isatty THEN "Progress" ELSE "generator", niters |-> n]

InitBar ==
    /\ decorator \in Decorators
    /\ isatty \in BOOLEAN
    /\ call = [args |-> <<>>, kwargs |-> <<>>]
    /\ bar_result = [kind |-> "none"]
    /\ ExperimentIdle
    /\ MenuIdle
    /\ InputIdle
    /\ ProgressIdle
    /\ TreeIdle

\* wrapped_f(*args, **kwargs): niters is a local of wrapped_f, bound only
\* by the two branches; read unbound, it raises UnboundLocalError.
wrapped_f(c) ==
    /\ call' = c
    /\ bar_result' =
          IF c.kwargs # <<>>
          THEN progress_of(c.kwargs[1])
          ELSE IF decorator.index # <<>> /\ decorator.index[1] < Len(c.args)
               THEN progress_of(c.args[decorator.index[1] + 1])
               ELSE [kind |-> "raised", exception |-> "UnboundLocalError"]
    /\ UNCHANGED <<experiment, tree, menu, input, progress, decorator, isatty>>

NextBar == \E c \in Calls : wrapped_f(c)

SpecBar == InitBar /\ [][NextBar]_vars

\* -------------------------------------- smbio.util.progress.Progress
Bools(n) == [1..n -> BOOLEAN]

\* The iterables given to Progress(it, niters=...): a list (len() applies,
\* nothing is printed while iterating) or a generator, which may print
\* before each yield and after the last one (prints[i] for the i-th
\* resumption); niters is None or a number.
Wrappeds ==
    UNION {{[sized |-> sz, items |-> [i \in 1..n |-> i], prints |-> pr, niters |-> ni] :
              sz \in BOOLEAN,
              pr \in Bools(n + 1),
              ni \in Optional(Estimates \cup {Progress_niters})} :
           n \in 0..MaxItems}

\* What is written to a stream: user text, or what Progress draws.
UserLine(n) == [kind |-> "user", n |-> n]

BarLine(percent) == [kind |-> "bar", n |-> percent]

Drawn(kind) == [kind |-> kind, n |-> 0]

\* int((self.iters / self.estimate) * 100); within the bounds explored the
\* float computation equals the integer quotient.
Percent(its, estimate) == (its * 100) \div estimate

\* What __progress() writes to the original stream.
ProgressWrites(its, estimate, percent, needswrite) ==
    LET newpercent == Percent(its, estimate)
    IN  IF newpercent > 100 THEN <<Drawn("unknown")>>
        ELSE IF newpercent # percent \/ needswrite THEN <<BarLine(newpercent)>>
        ELSE <<>>

\* What __flush() writes to the original stream.
FlushWrites == IF buffer # <<>> THEN <<Drawn("clear")>> \o buffer ELSE <<>>

InitProgress ==
    /\ wrapped \in {w \in Wrappeds : w.sized => \A i \in DOMAIN w.prints : ~w.prints[i]}
    /\ prog = [iters |-> 0, estimate |-> 0, percent |-> 0, needswrite |-> FALSE,
               finalized |-> FALSE, pos |-> 0]
    /\ prog_pc = "none"
    /\ sys_stdout = "original"
    /\ buffer = <<>>
    /\ stream = <<>>
    /\ yielded = <<>>
    /\ printed = <<>>
    /\ ExperimentIdle
    /\ MenuIdle
    /\ InputIdle
    /\ BarIdle
    /\ TreeIdle

\* Progress.__init__: stdout is replaced, the estimate is worked out and
\* __progress() is called, which divides by the estimate.
Progress_init ==
    /\ prog_pc = "none"
    /\ LET estimate == IF wrapped.sized THEN Len(wrapped.items)
                       ELSE IF wrapped.niters # <<>> THEN wrapped.niters[1]
                       ELSE Progress_niters
       IN  /\ sys_stdout' = "buffer"
           /\ buffer' = <<>>
           /\ IF estimate = 0
              THEN /\ prog_pc' = "ZeroDivisionError"
                   /\ prog' = [prog EXCEPT !.estimate = 0, !.needswrite = TRUE]
                   /\ UNCHANGED stream
              ELSE /\ prog_pc' = "iterating"
                   /\ prog' = [prog EXCEPT !.estimate = estimate, !.needswrite = FALSE]
                   /\ stream' = stream \o ProgressWrites(0, estimate, 0, TRUE)
    /\ UNCHANGED <<experiment, tree, menu, input, bar, wrapped, yielded, printed>>

\* print(...) by the code that consumes the Progress, between two next().
user_print ==
    /\ prog_pc = "iterating"
    /\ Len(printed) < MaxPrints + Len(wrapped.items) + 1
    /\ Cardinality({i \in 1..Len(printed) : printed[i].by = "consumer"}) < MaxPrints
    /\ printed' = Append(printed, [n |-> Len(printed) + 1, by |-> "consumer"])
    /\ buffer' = Append(buffer, UserLine(Len(printed) + 1))
    /\ UNCHANGED <<experiment, tree, menu, input, bar, wrapped, prog, prog_pc, sys_stdout,
                   stream, yielded>>

\* Progress.__next__: flush, draw, then next(self.it), which resumes the
\* wrapped iterator; on StopIteration the bar is completed, the buffer in
\* place of stdout is closed and the original stdout put back.
next ==
    /\ prog_pc = "iterating"
    /\ LET its == prog.iters + 1
           flushed == FlushWrites
           needswrite == prog.needswrite \/ buffer # <<>>
           drawn == ProgressWrites(its, prog.estimate, prog.percent, needswrite)
           percent == Percent(its, prog.estimate)
           resumed == prog.pos + 1
           text == IF wrapped.prints[resumed] THEN <<UserLine(Len(printed) + 1)>>
                   ELSE <<>>
       IN  /\ printed' = IF wrapped.prints[resumed]
                         THEN Append(printed, [n |-> Len(printed) + 1, by |-> "iterator"])
                         ELSE printed
           /\ IF resumed <= Len(wrapped.items)
              THEN /\ prog' = [prog EXCEPT !.iters = its, !.percent = percent,
                                           !.needswrite = FALSE, !.pos = resumed]
                   /\ stream' = stream \o flushed \o drawn
                   /\ buffer' = text
                   /\ yielded' = Append(yielded, wrapped.items[resumed])
                   /\ UNCHANGED <<prog_pc, sys_stdout>>
              ELSE /\ prog' = [prog EXCEPT !.iters = prog.estimate, !.percent = percent,
                                           !.needswrite = FALSE, !.pos = resumed]
                   /\ stream' = stream \o flushed \o drawn
                                   \o ProgressWrites(prog.estimate, prog.estimate,
                                                     percent, TRUE)
                                   \o <<Drawn("newline")>>
                   /\ buffer' = <<>>
                   /\ sys_stdout' = "original"
                   /\ prog_pc' = "exhausted"
                   /\ UNCHANGED yielded
    /\ UNCHANGED <<experiment, tree, menu, input, bar, wrapped>>

NextProgress ==
    \/ Progress_init
    \/ user_print
    \/ next

SpecProgress == InitProgress /\ [][NextProgress]_vars

\* ------------------------------------------------------------ smbio.tree
Nodes == 1..MaxNodes

\* The digraphs (networkx.DiGraph): a set of nodes and a set of directed
\* edges between them, self-loops included, no parallel edges.
DiGraphs ==
    UNION {[nodes : {ns}, edges : SUBSET (ns \X ns)] : ns \in SUBSET Nodes}

\* The in-degree G.in_degree_iter() pairs with node v.
in_degree(G, v) == Cardinality({e \in G.edges : e[2] = v})

\* The set of the nodes roots_iter(G) yields.
roots_iter(G) == {v \in G.nodes : in_degree(G, v) = 0}

\* The lists over a set, each element once: the orders in which the graph
\* can iterate its nodes.
Orders(S) ==
    {o \in [1..Cardinality(S) -> S] : \A i, j \in 1..Cardinality(S) :
                                          o[i] = o[j] => i = j}

InitTree ==
    /\ T \in DiGraphs
    /\ root_list = <<>>
    /\ root_result = [kind |-> "none"]
    /\ ExperimentIdle
    /\ MenuIdle
    /\ InputIdle
    /\ BarIdle
    /\ ProgressIdle

\* roots(G): list(roots_iter(G))
roots ==
    /\ \E o \in Orders(roots_iter(T)) : root_list' = o
    /\ UNCHANGED <<experiment, menu, input, bar, progress, T, root_result>>

\* root(T) returning the first root whenever there is one.
root_unchecked ==
    /\ \E o \in Orders(roots_iter(T)) :
          /\ root_list' = o
          /\ root_result' =
                IF Len(o) = 0
                THEN [kind |-> "raised", exception |-> "RuntimeError"]
                ELSE [kind |-> "returned", node |-> o[1]]
    /\ UNCHANGED <<experiment, menu, input, bar, progress, T>>

\* root(T): root_list = roots(T); raise unless len(root_list) = 1
root ==
    /\ \E o \in Orders(roots_iter(T)) :
          /\ root_list' = o
          /\ root_result' =
                IF Len(o) # 1
                THEN [kind |-> "raised", exception |-> "RuntimeError"]
                ELSE [kind |-> "returned", node |-> o[1]]
    /\ UNCHANGED <<experiment, menu, input, bar, progress, T>>

NextTree ==
    \/ roots
    \/ root

SpecTree == InitTree /\ [][NextTree]_vars

TypeOK ==
    /\ params \in ParamDecls
    /\ silent \in BOOLEAN
    /\ overridden \in BOOLEAN
    /\ completed \in 0..MaxConfigs
    /\ num_configs \in 0..(MaxRuns * MaxConfigs)
    /\ pc \in {"idle", "mp_for", "mp_count", "mp_wait", "serial_for"}
    /\ handler \in {"none", "idle", "busy", "dead"}
    /\ runs \in 0..MaxRuns
    /\ \A u \in Units : unit[u] \in {"none", "queued", "running", "result",
                                     "callback", "errback", "set", "lost"}

\* --------------------------------------------- iterating configs() alone
\* A constructed experiment with any declared parameters.
InitConfigs ==
    /\ params \in ParamDecls
    /\ silent = FALSE
    /\ overridden = TRUE
    /\ taskFails = {}
    /\ Constructed
    /\ UtilIdle

\* list(self.configs())
list_configs ==
    /\ Len(iters) < MaxIters
    /\ iters' = Append(iters, configs(params))
    /\ UNCHANGED <<util, inst, aggRaised, completed, num_configs, pc, mp, nproc, cfgs, idx, unit,
                   outqueue, handler, taskCalls, aggLog, out, runs, history>>

NextConfigs == list_configs

SpecConfigs == InitConfigs /\ [][NextConfigs]_vars

\* ------------------------------------------------------------ properties
\* The last run() has returned; its observations are still in place.
Returned == pc = "idle" /\ runs > 0

AggUnits == {aggLog[i].unit : i \in 1..Len(aggLog)}

ErrorLines == Cardinality({i \in 1..Len(out) : out[i].kind = "error"})

\* result() was called exactly once per unit, with the value task returned.
AggregatedOncePer(S) ==
    /\ Len(aggLog) = Cardinality(S)
    /\ \A u \in S : \E i \in 1..Len(aggLog) :
          aggLog[i].unit = u /\ aggLog[i].value = task(cfgs[u])

FailuresHandled ==
    /\ AggregatedOncePer(Units \ taskFails)
    /\ ErrorLines = Cardinality(taskFails)
    /\ \A u \in Units : taskCalls[u] = 1

C3_ExactlyOnce ==
    /\ \A u \in Units : taskCalls[u] <= 1
    /\ Returned => \A u \in Units : taskCalls[u] = 1

C3_Witness ==
    /\ Returned
    /\ ~mp
    /\ Len(cfgs) >= 2
    /\ taskFails # {}
    /\ \A u \in Units : taskCalls[u] = 1

\* Units whose task has run and did not raise.
Succeeded == {u \in Units \ taskFails : taskCalls[u] >= 1}

\* C4 as stated: when run() returns, __completed is the number of
\* configurations whose task succeeded; a failed unit never increments it.
C4_Claim ==
    /\ completed <= Cardinality(Succeeded)
    /\ Returned => completed = Cardinality(Units \ taskFails)

\* C4 amended: when run() returns, __completed is the number of
\* configurations whose task and result() call both succeeded; a unit whose
\* task failed never increments it.
C4_Completed ==
    /\ completed <= Cardinality(Succeeded)
    /\ Returned => completed = Cardinality(Units \ (taskFails \cup aggRaised))

C4_Witness ==
    /\ Returned
    /\ mp
    /\ taskFails # {}
    /\ completed >= 1
    /\ completed < Len(cfgs)

\* The unit's outcome has been reached: result() was called for it and has
\* returned, or its failure report has been printed.
OutcomeReached(u) ==
    /\ unit[u] = "set"
    /\ \/ u \in AggUnits
       \/ \E i \in 1..Len(out) : out[i].kind = "error" /\ out[i].u = u

\* C5: when a parallel run() returns, every configuration has been
\* submitted and every unit has reached its outcome.
C5_NoPending ==
    (Returned /\ mp) => \A u \in Units : OutcomeReached(u)

C5_Witness ==
    /\ Returned
    /\ mp
    /\ Len(cfgs) >= 2
    /\ taskFails # {}
    /\ taskFails # Units
    /\ \A u \in Units : unit[u] = "set"

\* C6 as stated: run() on an experiment that does not override task and
\* result fails at the call, before any configuration is processed: task
\* and result() are not called and the counters do not change.
C6_Claim ==
    ~overridden =>
        /\ \A u \in Units : taskCalls[u] = 0
        /\ aggLog = <<>>
        /\ completed = 0
        /\ num_configs = 0

\* C7: a sequential and a parallel run of the same experiment aggregate
\* the same multiset of values.
C7_SameBag ==
    \A i, j \in 1..Len(history) :
        history[i].mp # history[j].mp => history[i].agg = history[j].agg

C7_Witness ==
    /\ Len(history) = 2
    /\ history[1].mp # history[2].mp
    /\ taskFails # {}
    /\ \E v \in DOMAIN history[2].agg : history[2].agg[v] = 2

\* C9 as stated: both counters are reset when a run starts (here: when a
\* parallel run reaches its dispatch loop), so the 'queued N tasks' line,
\* and every progress line printed after it, report the number of
\* configurations of this run.
C9_Claim ==
    /\ (pc = "mp_for" /\ idx = 1) => (completed = 0 /\ num_configs = 0)
    /\ \A i \in 1..Len(out) :
          out[i].kind = "queued" =>
             /\ out[i].n = Len(cfgs)
             /\ \A j \in (i + 1)..Len(out) :
                   out[j].kind = "progress" => out[j].n = Len(cfgs)

\* C10: result() is never called in a worker, and at no time is more than
\* one callback (_cb or _err) executing.
C10_Serialized ==
    /\ \A i \in 1..Len(aggLog) : aggLog[i].where # "worker"
    /\ Cardinality({u \in Units : unit[u] \in {"callback", "errback"}}) <= 1

C10_Witness ==
    /\ mp
    /\ nproc >= 2
    /\ \E u, v \in Units :
          /\ unit[u] = "callback"
          /\ unit[v] = "result"
          /\ v \in taskFails

\* C11: provided every task call terminates and no result() call raises, a
\* started run() eventually returns, in both modes, whatever the worker
\* count and the set of failing configurations.
C11_Returns == (pc # "idle") ~> (pc = "idle" \/ aggRaised # {})

C11_Witness ==
    /\ Returned
    /\ mp
    /\ nproc >= 2
    /\ Len(cfgs) >= 2
    /\ taskFails = Units
    /\ aggRaised = {}

\* What C12 says of the single unit of an experiment without parameters
\* whose task returned.
OneAggregate ==
    /\ Len(aggLog) = 1
    /\ aggLog[1].unit = 1
    /\ aggLog[1].value = task(<<>>)

\* C12 as stated: without declared parameters there is exactly one
\* configuration, the empty tuple; run() calls task exactly once with it
\* and result() exactly once with that task's result.
C12_Claim ==
    (params = <<>> /\ Returned) =>
        /\ cfgs = << <<>> >>
        /\ taskCalls = <<1>>
        /\ OneAggregate

\* C12 amended: the same, with result() called exactly once when the task
\* call returns and not at all when it raises.
C12_ZeroParams ==
    (params = <<>> /\ Returned) =>
        /\ cfgs = << <<>> >>
        /\ taskCalls = <<1>>
        /\ IF 1 \in taskFails THEN aggLog = <<>> ELSE OneAggregate

C12_Witness ==
    /\ params = <<>>
    /\ Returned
    /\ mp
    /\ overridden
    /\ taskFails = {}
    /\ Len(aggLog) = 1
    /\ aggLog[1].value = 1

HasEmptyParam == \E i \in 1..Len(params) : params[i] = <<>>

\* C13: when some declared parameter has no value there is no
\* configuration, and a run makes no task call, no result() call and no
\* failure report.
C13_EmptyParam ==
    (HasEmptyParam /\ runs > 0) =>
        /\ cfgs = <<>>
        /\ taskCalls = <<>>
        /\ aggLog = <<>>
        /\ ErrorLines = 0

C13_Witness ==
    /\ Returned
    /\ mp
    /\ Len(params) = 2
    /\ params[1] # <<>>
    /\ params[2] = <<>>
    /\ cfgs = <<>>

\* C14 as stated: a run over zero configurations prints 'queued 0 tasks'
\* and then 'completed all tasks' in both modes, and nothing when silent.
C14_Claim ==
    (Returned /\ cfgs = <<>>) =>
        out = IF silent THEN <<>>
              ELSE <<Line("queued", 0, 0, 0), Line("all", 0, 0, 0)>>

\* C14 amended: in parallel mode it prints both lines; in sequential mode
\* only 'completed all tasks'; nothing when silent.
C14_Bookkeeping ==
    (Returned /\ cfgs = <<>>) =>
        out = IF silent THEN <<>>
              ELSE IF mp THEN <<Line("queued", 0, 0, 0), Line("all", 0, 0, 0)>>
              ELSE <<Line("all", 0, 0, 0)>>

C14_Witness ==
    /\ Returned
    /\ cfgs = <<>>
    /\ mp
    /\ ~silent
    /\ Len(out) = 2

\* C15: in parallel mode the units are submitted in the order of configs():
\* a unit is submitted only after all the earlier ones.  (That the order of
\* aggregation is free is shown by the witness: the last unit aggregated
\* before the first.)
C15_SubmissionOrder ==
    \A u \in Units : unit[u] # "none" => \A j \in 1..(u - 1) : unit[j] # "none"

C15_Witness ==
    /\ mp
    /\ Len(cfgs) >= 3
    /\ \E i, j \in 1..Len(aggLog) :
          /\ i < j
          /\ aggLog[i].unit = Len(cfgs)
          /\ aggLog[j].unit = 1

SerialLines == {i \in 1..Len(out) : out[i].kind = "serial"}

ProgressLines == {i \in 1..Len(out) : out[i].kind = "progress"}

\* C16 as stated: a sequential run that is not silent prints, after every
\* configuration, the progress line of parallel mode 'Completed c/N.', so
\* k such lines.
C16_Claim ==
    (Returned /\ ~mp /\ ~silent) =>
        /\ Cardinality(ProgressLines) = Len(cfgs)
        /\ \A i \in ProgressLines : out[i].n = Len(cfgs)

\* C16 amended: it prints, after every configuration, succeeded or failed,
\* the line 'Experiment: completed c tasks.' with c the number of
\* configurations completed so far, so k such lines, and never the
\* parallel-mode line.
C16_SerialLines ==
    (Returned /\ ~mp /\ ~silent) =>
        /\ Cardinality(SerialLines) = Len(cfgs)
        /\ ProgressLines = {}
        /\ \A i \in SerialLines :
              out[i].c = Cardinality((1..out[i].u) \ (taskFails \cup aggRaised))

C16_Witness ==
    /\ Returned
    /\ ~mp
    /\ ~silent
    /\ Len(cfgs) >= 2
    /\ taskFails # {}
    /\ taskFails # Units
    /\ Cardinality(SerialLines) = Len(cfgs)

\* A selection that is an integer outside 1..len(options) of its menu.
InvalidSelection(e) ==
    /\ e.selection # <<>>
    /\ e.selection[1] \notin 1..Len(MenuOf(e.menu).options)

\* C17 as stated: when the selection entered is an integer outside
\* 1..len(options), zero and the negative numbers included, display()
\* executes no action, prints 'The option you selected is invalid.' and
\* goes on to display the menu again, reentrant or not.
C17_Claim ==
    [][(/\ Len(entered') = Len(entered) + 1
        /\ InvalidSelection(entered'[Len(entered')]))
       => /\ executed' = executed
          /\ menu_out' = Append(menu_out, [kind |-> "invalid", menu |-> Top.menu])
          /\ Len(frames') = Len(frames)
          /\ frames'[Len(frames')].running
          /\ frames'[Len(frames')].at = "while"]_vars

\* The actions executed by display() calls of the menu called name.
ExecutedIn(name) == {i \in 1..Len(executed) : executed[i].menu = name}

\* The display() calls made on the submenu: one per "menu" action executed.
SubDisplays == {i \in 1..Len(executed) : executed[i].kind = "menu"}

\* A display() call of a non-reentrant menu executes at most one action.
AtMostOneAction ==
    /\ ~reentrant => Cardinality(ExecutedIn("main")) <= 1
    /\ ~SubMenu.reentrant =>
          Cardinality(ExecutedIn("sub")) <= Cardinality(SubDisplays)

\* What a selection does to the display() call that read it: a blank one
\* executes nothing and ends the loop; an executed action ends the loop of a
\* non-reentrant menu and leaves the loop of a reentrant one running, to
\* display the menu again.
SelectionEffect ==
    Len(entered') = Len(entered) + 1 =>
        LET e == entered'[Len(entered')]
            f == frames'[Len(frames)]
        IN  /\ f.at = "while"
            /\ e.selection = <<>> =>
                  /\ executed' = executed
                  /\ Len(frames') = Len(frames)
                  /\ ~f.running
            /\ executed' # executed =>
                  /\ Len(executed') = Len(executed) + 1
                  /\ f.running = MenuOf(e.menu).reentrant

\* display() returns only with running false; for a reentrant menu that is
\* only after a blank selection, the last thing entered.
ReturnCause ==
    Len(frames') < Len(frames) =>
        /\ ~Top.running
        /\ MenuOf(Top.menu).reentrant =>
              /\ entered # <<>>
              /\ entered[Len(entered)] = [menu |-> Top.menu, selection |-> <<>>]

\* C21: display() on a non-reentrant menu executes at most one action and
\* returns after it; on a reentrant menu it displays the menu again after
\* every executed action and returns only when a blank selection was
\* entered; a blank selection always ends display() and executes nothing.
C21_Display ==
    /\ []AtMostOneAction
    /\ [][SelectionEffect]_vars
    /\ [][ReturnCause]_vars

C21_Witness ==
    /\ reentrant
    /\ frames = <<>>
    /\ Cardinality(ExecutedIn("main")) >= 2
    /\ menu_out # <<>>
    /\ entered[Len(entered)].selection = <<>>

\* The nodes of T no edge of T leads to.
NoIncoming == {v \in T.nodes : ~\E u \in T.nodes : <<u, v>> \in T.edges}

\* C22: root(T) returns the single node without incoming edge when T has
\* exactly one, and raises RuntimeError when T has none or several; it
\* never returns a node that has an incoming edge.
C22_Root ==
    root_result.kind # "none" =>
        IF Cardinality(NoIncoming) = 1
        THEN /\ root_result.kind = "returned"
             /\ root_result.node \in NoIncoming
        ELSE /\ root_result.kind = "raised"
             /\ root_result.exception = "RuntimeError"

C22_Witness ==
    /\ root_result.kind = "returned"
    /\ Cardinality(T.nodes) = MaxNodes
    /\ \E v \in T.nodes : <<v, v>> \in T.edges
    /\ \E v \in T.nodes : <<v, root_result.node>> \notin T.edges

\* C23 as stated: in parallel mode no callback (result() call or failure
\* report) executes while the dispatch loop is between submitting a unit
\* and counting it, so every progress line reports as its total the number
\* of configurations of the run.
C23_Claim ==
    /\ ~(pc = "mp_count" /\ handler = "busy")
    /\ \A i \in 1..Len(out) : out[i].kind = "progress" => out[i].n = Len(cfgs)

IsProgressLine(l) == l.kind = "progress"

\* The progress lines of the current run, in the order printed.
Progress_lines == SelectSeq(out, IsProgressLine)

\* The units whose success _cb was called for.
CalledBack ==
    {u \in Units \ taskFails : unit[u] \in {"callback", "set", "lost"}}

\* C24: in parallel mode, not silent, each successful unit increments
\* __completed by one and prints one progress line carrying the value
\* after the increment, so the lines carry 1, 2, ... in this order, one per
\* success; a failed unit prints no progress line and does not increment.
C24_Progress ==
    (mp /\ ~silent /\ runs > 0) =>
        /\ Len(Progress_lines) = completed
        /\ \A i \in 1..Len(Progress_lines) : Progress_lines[i].c = i
        /\ {Progress_lines[i].u : i \in 1..Len(Progress_lines)} = CalledBack
        /\ Cardinality(CalledBack) = completed
        /\ Returned => CalledBack = Units \ taskFails

C24_Witness ==
    /\ Returned
    /\ mp
    /\ ~silent
    /\ taskFails # {}
    /\ completed >= 2
    /\ Progress_lines[2].c = 2

\* C25 as stated: in every state of a parallel run __completed is at most
\* __num_configs, and no progress line reports more completed units than
\* units counted as queued.
C25_Claim ==
    /\ InPool => completed <= num_configs
    /\ \A i \in 1..Len(out) : out[i].kind = "progress" => out[i].c <= out[i].n

\* The error reports printed for unit u.
ErrorLinesOf(u) == {i \in 1..Len(out) : out[i].kind = "error" /\ out[i].u = u}

\* C26: in sequential mode an error raised by result() for a configuration
\* is caught and printed like a task error, __completed is not incremented
\* for it, the loop goes on with the next configuration and run() returns.
C26_SerialResultError ==
    (~mp /\ runs > 0) =>
        /\ \A u \in aggRaised :
              /\ Cardinality(ErrorLinesOf(u)) = 1
              /\ u \in AggUnits
        /\ pc = "serial_for" =>
              completed = Cardinality((1..(idx - 1)) \ (taskFails \cup aggRaised))
        /\ Returned =>
              /\ \A u \in Units : taskCalls[u] = 1
              /\ completed = Cardinality(Units \ (taskFails \cup aggRaised))

C26_Witness ==
    /\ Returned
    /\ ~mp
    /\ \E u \in aggRaised : u < Len(cfgs)
    /\ completed >= 1
    /\ taskFails = {}

\* The user typed only non-blank lines that do not convert.
OnlyBad == \A i \in 1..Len(typed) : typed[i] # "" /\ ~Converts(typed[i])

\* C18: with num_retries = n >= 0 and only bad lines typed, repeat_input
\* prompts n + 1 times, never more, and then returns None; with a negative
\* num_retries it returns only on a blank line or a line that converts.
C18_Retries ==
    /\ (given_retries >= 0 /\ OnlyBad) => Len(typed) <= given_retries + 1
    /\ (given_retries >= 0 /\ OnlyBad /\ input_pc = "returned") =>
          Len(typed) = given_retries + 1 /\ rv = <<>>
    /\ (given_retries < 0 /\ input_pc = "returned") =>
          /\ typed # <<>>
          /\ LET last == typed[Len(typed)]
             IN  \/ last = "" /\ rv = <<>>
                 \/ Converts(last) /\ rv = <<int(last)>>

C18_Witness ==
    /\ input_pc = "returned"
    /\ given_retries = MaxRetries
    /\ OnlyBad
    /\ Len(typed) = MaxRetries + 1
    /\ num_retries = 0

\* The estimate C19 describes for the call made.
ExpectedEstimate ==
    IF call.kwargs # <<>> THEN call.kwargs[1]
    ELSE IF decorator.index # <<>> /\ decorator.index[1] < Len(call.args)
         THEN call.args[decorator.index[1] + 1]
         ELSE decorator.niters

\* C19 as stated: a call of a function decorated with progress_bar never
\* raises; it returns an iterator whose estimate is kwargs[name] if
\* present, else args[index] if index is given and in range, else the
\* niters of the decorator.
C19_Claim ==
    bar_result.kind # "none" =>
        /\ bar_result.kind \in {"Progress", "generator"}
        /\ bar_result.niters = ExpectedEstimate

IsUserLine(l) == l.kind = "user"

\* The numbers of the user lines written to the original stream, in order.
UserText == [i \in 1..Len(SelectSeq(stream, IsUserLine)) |->
                SelectSeq(stream, IsUserLine)[i].n]

\* C20 as stated: from its construction until the wrapped iterator is
\* exhausted a Progress keeps sys.stdout replaced by a buffer; it yields
\* the items of the wrapped iterator unchanged and in order; and when
\* next() raises StopIteration sys.stdout is the original stream again and
\* everything user code printed during the iteration was written to it.
C20_Claim ==
    /\ prog_pc = "iterating" => sys_stdout = "buffer"
    /\ yielded = SubSeq(wrapped.items, 1, Len(yielded))
    /\ prog_pc = "exhausted" =>
          /\ sys_stdout = "original"
          /\ yielded = wrapped.items
          /\ UserText = [i \in 1..Len(printed) |-> printed[i].n]

RECURSIVE SizeProduct(_)
SizeProduct(p) == IF p = <<>> THEN 1 ELSE Len(Head(p)) * SizeProduct(Tail(p))

Distinct(s) == \A i, j \in 1..Len(s) : i # j => s[i] # s[j]

NonEmptyParams == \A i \in 1..Len(params) : params[i] # <<>>

\* Every iteration yielded s1*...*sn tuples of length n whose i-th
\* component comes from the i-th parameter, and equals the first iteration.
ConfigsShape ==
    \A j \in 1..Len(iters) :
        /\ Len(iters[j]) = SizeProduct(params)
        /\ \A t \in Range(iters[j]) :
              /\ Len(t) = Len(params)
              /\ \A i \in 1..Len(params) : t[i] \in Range(params[i])
        /\ iters[j] = iters[1]

\* C8 as stated: for non-empty parameter value sequences, configs() yields
\* s1*...*sn pairwise distinct tuples of length n, component i drawn from
\* Pi, and a second iteration yields the same sequence as the first.
C8_Claim ==
    NonEmptyParams =>
        /\ ConfigsShape
        /\ \A j \in 1..Len(iters) : Distinct(iters[j])

\* C8 amended: the same, except that the tuples are pairwise distinct only
\* when no parameter's value sequence repeats a value.
C8_Configs ==
    NonEmptyParams =>
        /\ ConfigsShape
        /\ (\A i \in 1..Len(params) : Distinct(params[i]))
              => \A j \in 1..Len(iters) : Distinct(iters[j])

C8_Witness ==
    /\ Len(iters) = 2
    /\ Len(params) = 2
    /\ Len(params[1]) = 2
    /\ Len(params[2]) = 2
    /\ Distinct(params[1])
    /\ params[1] # params[2]
    /\ Len(iters[2]) = 4

====
